---- MODULE Spec2Model ----
(***************************************************************************)
(* Prism-Extract: the colour extraction pipeline of                        *)
(* src/src/lib/colorExtractor.ts (pixel sampler, median-cut quantizer,     *)
(* hex encoding, gradient formatter).                                      *)
(*                                                                         *)
(* Strings that are inspected character by character (hex codes) are       *)
(* sequences of one-character strings; strings that are only built and     *)
(* compared (the gradient) are TLA+ strings.                               *)
(***************************************************************************)
EXTENDS Bags, FiniteSets, Integers, Sequences, TLC

(***************************************************************************)
(* Bounds of the model.                                                    *)
(***************************************************************************)
MaxPixels == 3
MaxColorCount == 16
MaxRuns == 2
MaxStops == 2
MaxOps == 3
MaxBucketPixels == 5

(***************************************************************************)
(* Program constants.                                                      *)
(***************************************************************************)
ChannelMax == 255
AlphaThreshold == 125
WhiteThreshold == 240
BlackThreshold == 15
MinColorCount == 3
DefaultColorCount == 6
DefaultAngle == 90
MaxSliderAngle == 360
MaxSliderColorCount == 12

VARIABLES
    imageData,    \* the decoded RGBA pixels of the canvas, in scan order
    colorCount,   \* the requested number of colours
    pc,           \* position inside extractColors' img.onload callback
    run,          \* how many times extractColors was called on this image
    pixels,       \* the array `pixels` of the latest img.onload callback
    calls,        \* every invocation of medianCut of this run, in call order
    colors,       \* the array returned by the outer medianCut call
    colorInfos,   \* the value the promise resolved with
    firstColors,  \* the colours of the first run's result
    promise,      \* the promise returned by the latest extractColors call
    settleCalls,  \* how often that call invoked resolve or reject
    hexIn,        \* rgbToHex: the arguments <<r, g, b>>
    hexOut,       \* rgbToHex: the returned string, as characters
    gColors,      \* generateGradient: the argument `colors`
    gAngle,       \* generateGradient: the argument `angle`
    gStops,       \* generateGradient: the argument `stops`
    gCSS,         \* generateGradient: the returned string ("" before the call)
    hslIn,        \* hslToRgb: the arguments <<h, s, l>>
    hslOut,       \* hslToRgb: the returned triple (<<>> before the call)
    pageColors,      \* PrismExtract: the state `colors`
    selectedColors,  \* PrismExtract: the state `selectedColors`
    angle,           \* PrismExtract: the state `angle`
    angleFrom,       \* which control set `angle` last
    stops,           \* PrismExtract: the state `stops`
    isProcessing,    \* PrismExtract: the state `isProcessing`
    uploadedImage,   \* PrismExtract: the state `uploadedImage` (<<>> is null)
    pageColorCount,  \* PrismExtract: the state `colorCount`
    inflight,        \* the extractColors calls of the page not yet settled
    uploads,         \* how many extractions handleFileChange has started
    edits,           \* how many palette and gradient edits the user made
    toast,           \* the title of the latest toast
    effectColors,    \* the `colors` of the effect on [colors] that is
                     \* committed but has not run (<<>>: none that acts)
    copied,          \* PrismExtract: the state `copied`
    copyTimers,      \* the timeouts of handleCopyCSS that have not fired
    qInput,       \* medianCut called repeatedly: the pixel list first passed
    qCount,       \* medianCut called repeatedly: the colorCount of each call
    qArray,       \* medianCut called repeatedly: the array passed first, as
                  \* the calls on it have left it
    qOut          \* medianCut called repeatedly: for each call, whether it
                  \* was passed that array again and the colours it got

pipeVars == <<imageData, colorCount, pc, run, pixels, calls, colors,
              colorInfos, firstColors, promise, settleCalls>>
hexVars == <<hexIn, hexOut>>
gradVars == <<gColors, gAngle, gStops, gCSS>>
hslVars == <<hslIn, hslOut>>
pageVars == <<pageColors, selectedColors, angle, angleFrom, stops,
              isProcessing, uploadedImage, pageColorCount, inflight, uploads,
              edits, toast, effectColors, copied, copyTimers>>
quantVars == <<qInput, qCount, qArray, qOut>>
vars == <<pipeVars, hexVars, gradVars, hslVars, pageVars, quantVars>>

\* what the operations of one component leave alone
offPipeVars == <<hexVars, gradVars, hslVars, pageVars, quantVars>>
offHexVars == <<pipeVars, gradVars, hslVars, pageVars, quantVars>>
offGradVars == <<pipeVars, hexVars, hslVars, pageVars, quantVars>>
offHslVars == <<pipeVars, hexVars, gradVars, pageVars, quantVars>>
offPageVars == <<pipeVars, hexVars, gradVars, hslVars, quantVars>>
offQuantVars == <<pipeVars, hexVars, gradVars, hslVars, pageVars>>

(***************************************************************************)
(* Arithmetic helpers.                                                     *)
(***************************************************************************)
MinOf(S) == CHOOSE x \in S : \A y \in S : x <= y
MaxOf(S) == CHOOSE x \in S : \A y \in S : x >= y

RECURSIVE Pow2(_)
Pow2(d) == IF d = 0 THEN 1 ELSE 2 * Pow2(d - 1)

\* Math.ceil(Math.log2(n)) for n >= 1: the least d with 2^d >= n
RECURSIVE CeilLog2From(_, _)
CeilLog2From(n, d) == IF Pow2(d) >= n THEN d ELSE CeilLog2From(n, d + 1)
CeilLog2(n) == CeilLog2From(n, 0)

\* Math.round(num / den) for num >= 0, den > 0 (halves round up)
RoundDivFloor(num, den) == num \div den
RoundDiv(num, den) == (2 * num + den) \div (2 * den)

(***************************************************************************)
(* rgbToHex                                                                *)
(***************************************************************************)
HexDigits == <<"0", "1", "2", "3", "4", "5", "6", "7",
               "8", "9", "a", "b", "c", "d", "e", "f">>

\* Number.prototype.toString(16) of a non-negative integer
RECURSIVE ToString16(_)
ToString16(n) ==
    IF n < 16 THEN <<HexDigits[n + 1]>>
    ELSE ToString16(n \div 16) \o <<HexDigits[(n % 16) + 1]>>

ToHexUnpadded(n) == ToString16(n)
toHex(n) ==
    LET hex == ToString16(n)
    IN  IF Len(hex) = 1 THEN <<"0">> \o hex ELSE hex

rgbToHex(r, g, b) == <<"#">> \o toHex(r) \o toHex(g) \o toHex(b)

\* the characters of a string value joined into one string
RECURSIVE Str(_)
Str(chars) == IF chars = <<>> THEN "" ELSE Head(chars) \o Str(Tail(chars))

(***************************************************************************)
(* The sampler's filter (extractColors, the loop over imageData.data)      *)
(***************************************************************************)
VisibleInclusive(p) == p.a >= AlphaThreshold
Visible(p) == p.a > AlphaThreshold

NearWhiteLoose(p) == p.r > 250 /\ p.g > 250 /\ p.b > 250
NearWhite(p) == p.r > WhiteThreshold /\ p.g > WhiteThreshold /\ p.b > WhiteThreshold

NearBlack(p) == p.r < BlackThreshold /\ p.g < BlackThreshold /\ p.b < BlackThreshold

Keep(p) == Visible(p) /\ ~NearWhite(p) /\ ~NearBlack(p)

RECURSIVE SamplePixels(_, _)
SamplePixels(data, acc) ==
    IF data = <<>> THEN acc
    ELSE LET p == Head(data)
         IN  SamplePixels(Tail(data),
                 IF Keep(p) THEN Append(acc, [r |-> p.r, g |-> p.g, b |-> p.b])
                 ELSE acc)

\* const pixels: RGB[] = []
NewPixels == <<>>

(***************************************************************************)
(* averageColor                                                            *)
(***************************************************************************)
RECURSIVE SumChannel(_, _)
SumChannel(pxs, ch) ==
    IF pxs = <<>> THEN 0 ELSE Head(pxs)[ch] + SumChannel(Tail(pxs), ch)

averageColor(pxs) ==
    IF Len(pxs) = 0 THEN [r |-> 0, g |-> 0, b |-> 0]
    ELSE [r |-> RoundDiv(SumChannel(pxs, "r"), Len(pxs)),
          g |-> RoundDiv(SumChannel(pxs, "g"), Len(pxs)),
          b |-> RoundDiv(SumChannel(pxs, "b"), Len(pxs))]

(***************************************************************************)
(* medianCut                                                               *)
(***************************************************************************)
ChannelValues(pxs, ch) == {pxs[k][ch] : k \in 1..Len(pxs)}

\* ranges[ch] after the forEach: min starts at 255, max starts at 0
RangeMin(pxs, ch) == MinOf({ChannelMax} \cup ChannelValues(pxs, ch))
RangeMax(pxs, ch) == MaxOf({0} \cup ChannelValues(pxs, ch))
ChannelRange(pxs, ch) == RangeMax(pxs, ch) - RangeMin(pxs, ch)

ChannelGreenOrBlue(pxs) ==
    LET gRange == ChannelRange(pxs, "g")
        bRange == ChannelRange(pxs, "b")
    IN  IF gRange >= bRange THEN "g" ELSE "b"

ChannelRedFirst(pxs) ==
    LET rRange == ChannelRange(pxs, "r")
        gRange == ChannelRange(pxs, "g")
        bRange == ChannelRange(pxs, "b")
        maxRange == MaxOf({rRange, gRange, bRange})
    IN  IF maxRange = rRange THEN "r"
        ELSE IF maxRange = gRange THEN "g"
        ELSE "b"

Channel(pxs) ==
    LET rRange == ChannelRange(pxs, "r")
        gRange == ChannelRange(pxs, "g")
        bRange == ChannelRange(pxs, "b")
        maxRange == MaxOf({rRange, gRange, bRange})
    IN  IF maxRange = gRange THEN "g"
        ELSE IF maxRange = bRange THEN "b"
        ELSE "r"

\* Array.prototype.sort with (a, b) => a[channel] - b[channel]: a stable
\* ascending sort on the channel
RECURSIVE InsertSorted(_, _, _)
InsertSorted(sorted, p, ch) ==
    IF sorted = <<>> THEN <<p>>
    ELSE IF p[ch] < Head(sorted)[ch] THEN <<p>> \o sorted
    ELSE <<Head(sorted)>> \o InsertSorted(Tail(sorted), p, ch)

RECURSIVE SortFrom(_, _, _)
SortFrom(pxs, acc, ch) ==
    IF pxs = <<>> THEN acc
    ELSE SortFrom(Tail(pxs), InsertSorted(acc, Head(pxs), ch), ch)

SortByChannelReversingTies(pxs, ch) ==
    SortFrom([k \in 1..Len(pxs) |-> pxs[Len(pxs) + 1 - k]], <<>>, ch)
SortByChannel(pxs, ch) == SortFrom(pxs, <<>>, ch)

MidCeil(pxs) == (Len(pxs) + 1) \div 2
Mid(pxs) == Len(pxs) \div 2

\* pixels.slice(0, mid) and pixels.slice(mid)
LowerHalfShort(sorted, mid) == SubSeq(sorted, 1, mid - 1)
LowerHalf(sorted, mid) == SubSeq(sorted, 1, mid)
UpperHalfSkipping(sorted, mid) == SubSeq(sorted, mid + 2, Len(sorted))
UpperHalf(sorted, mid) == SubSeq(sorted, mid + 1, Len(sorted))

BaseCase(pxs, depth) == depth = 0 \/ Len(pxs) = 0

RECURSIVE medianCut(_, _)
medianCut(pxs, depth) ==
    IF BaseCase(pxs, depth) THEN <<averageColor(pxs)>>
    ELSE LET sorted == SortByChannel(pxs, Channel(pxs))
             mid == Mid(sorted)
         IN  medianCut(LowerHalf(sorted, mid), depth - 1)
             \o medianCut(UpperHalf(sorted, mid), depth - 1)

\* The invocations of medianCut made by medianCut(pxs, depth), in call
\* order: the arguments of each, whether it took the base case, and for the
\* others the channel it sorted on and the array after the sort.
RECURSIVE medianCutCalls(_, _)
medianCutCalls(pxs, depth) ==
    IF BaseCase(pxs, depth)
    THEN <<[pixels |-> pxs, depth |-> depth, base |-> TRUE,
            channel |-> "none", sorted |-> pxs]>>
    ELSE LET ch == Channel(pxs)
             sorted == SortByChannel(pxs, ch)
             mid == Mid(sorted)
         IN  <<[pixels |-> pxs, depth |-> depth, base |-> FALSE,
                channel |-> ch, sorted |-> sorted]>>
             \o medianCutCalls(LowerHalf(sorted, mid), depth - 1)
             \o medianCutCalls(UpperHalf(sorted, mid), depth - 1)

\* the array `pixels` of the caller after medianCut(pixels, depth) returned
SortedInPlace(pxs, depth) ==
    IF BaseCase(pxs, depth) THEN pxs ELSE SortByChannel(pxs, Channel(pxs))

(***************************************************************************)
(* extractColors: the promise                                              *)
(***************************************************************************)
Pending == [state |-> "pending", reason |-> ""]

\* resolve(value) and reject(new Error(message)): only the first of them
\* settles the promise
Resolve(p) == IF p.state = "pending" THEN [state |-> "fulfilled", reason |-> ""] ELSE p
Reject(p, message) ==
    IF p.state = "pending" THEN [state |-> "rejected", reason |-> message] ELSE p

\* reader.onerror
ReaderOnError(p) == Reject(p, "Failed to read file")

\* img.onerror
ImgOnErrorMissing(p) == p
ImgOnError(p) == Reject(p, "Failed to load image")

\* if (!ctx) { reject(...); return; }
NoContext(p) == Reject(p, "Could not get canvas context")

\* catch (error) { reject(error); }
Caught(p) == Reject(p, "thrown")

(***************************************************************************)
(* extractColors: slice and conversion to ColorInfo                        *)
(***************************************************************************)
Slice(s, n) == SubSeq(s, 1, IF n < Len(s) THEN n ELSE Len(s))

\* crypto.randomUUID(): an identifier no other colour of any run carries
FreshId(r, index) == <<r, index>>

ToColorInfos(finalColors, r) ==
    [k \in 1..Len(finalColors) |->
        [id |-> FreshId(r, k - 1),
         rgb |-> finalColors[k],
         hex |-> Str(rgbToHex(finalColors[k].r, finalColors[k].g,
                              finalColors[k].b)),
         count |-> k - 1]]

RgbOf(infos) == [k \in 1..Len(infos) |-> infos[k].rgb]

(***************************************************************************)
(* generateGradient                                                        *)
(***************************************************************************)
RECURSIVE Join(_, _)
Join(parts, sep) ==
    IF parts = <<>> THEN ""
    ELSE IF Len(parts) = 1 THEN parts[1]
    ELSE parts[1] \o sep \o Join(Tail(parts), sep)

generateGradientTight(cs, deg, stopList) ==
    LET colorStops ==
            Join([k \in 1..Len(cs) |->
                     cs[k].hex \o " " \o ToString(stopList[k]) \o "%"], ",")
    IN  "linear-gradient(" \o ToString(deg) \o "deg, " \o colorStops \o ")"

generateGradient(cs, deg, stopList) ==
    LET colorStops ==
            Join([k \in 1..Len(cs) |->
                     cs[k].hex \o " " \o ToString(stopList[k]) \o "%"], ", ")
    IN  "linear-gradient(" \o ToString(deg) \o "deg, " \o colorStops \o ")"

(***************************************************************************)
(* hslToRgb (examples/.../src/App.tsx), for integer h, s and l             *)
(*                                                                         *)
(* The code computes in binary floating point; the model computes the      *)
(* exact rational value.  k(n) and the clamp are held in units of 1/30,    *)
(* and 255 * f(n) is the fraction HslNum / HslDen.  Where that exact value *)
(* lies halfway between two integers the rounding error of the floating    *)
(* point product decides which of the two Math.round returns, so the model *)
(* allows both.                                                            *)
(***************************************************************************)
\* k(n) = (n + h / 30) % 12, times 30
HslK(n, h) == (30 * n + h) % 360

\* Math.max(-1, Math.min(k - 3, Math.min(9 - k, 1))), times 30
HslClamp(n, h) ==
    MaxOf({-30, MinOf({HslK(n, h) - 90, MinOf({270 - HslK(n, h), 30})})})

\* a = s * Math.min(l, 1 - l), times 10000
HslA(s, l) == s * MinOf({l, 100 - l})

\* 255 * f(n) = 255 * (l - a * clamp) = HslNum / HslDen
HslDen == 300000
HslNum(n, h, s, l) == 255 * (3000 * l - HslA(s, l) * HslClamp(n, h))

\* Math.round of num / den computed in floating point, num >= 0
RoundChoices(num, den) ==
    IF (2 * num) % (2 * den) = den
    THEN {num \div den, num \div den + 1}
    ELSE {(2 * num + den) \div (2 * den)}

HslChannel(n, h, s, l) == RoundChoices(HslNum(n, h, s, l), HslDen)

hslToRgbSwapped(h, s, l) ==
    { <<r, g, b>> : r \in HslChannel(0, h, s, l), g \in HslChannel(4, h, s, l),
                    b \in HslChannel(8, h, s, l) }

\* the triples [round(255 f(0)), round(255 f(8)), round(255 f(4))]
hslToRgb(h, s, l) ==
    { <<r, g, b>> : r \in HslChannel(0, h, s, l), g \in HslChannel(8, h, s, l),
                    b \in HslChannel(4, h, s, l) }

(***************************************************************************)
(* Inputs                                                                  *)
(***************************************************************************)
Px(r, g, b, a) == [r |-> r, g |-> g, b |-> b, a |-> a]

\* pixels whose pairs show every tie between channel ranges, and pixels the
\* filter drops
PalettePixels ==
    { Px(20, 60, 40, 255), Px(60, 20, 40, 255), Px(60, 20, 80, 255),
      Px(20, 20, 80, 255),
      Px(250, 250, 250, 255), Px(240, 240, 240, 255),
      Px(100, 100, 100, 125) }

\* one-pixel images around every threshold of the filter
ThresholdChannels == {14, 15, 240, 241}
ThresholdAlphas == {125, 126}
ThresholdPixels ==
    { Px(r, g, b, a) : r \in ThresholdChannels, g \in ThresholdChannels,
                       b \in ThresholdChannels, a \in ThresholdAlphas }

SeqsUpTo(S, n) == UNION { [1..k -> S] : k \in 0..n }

Images == SeqsUpTo(PalettePixels, MaxPixels) \cup [1..1 -> ThresholdPixels]

\* longer images of two colours, every pixel of which passes the filter
BucketPixels == {Px(20, 60, 40, 255), Px(60, 20, 80, 255)}
BucketImages == SeqsUpTo(BucketPixels, MaxBucketPixels)

EdgeChannels == {0, 9, 10, 15, 16, 255}
Channels == 0..ChannelMax
HexInputs ==
    { <<r, g, b>> : r \in Channels, g \in EdgeChannels, b \in EdgeChannels }
    \cup { <<r, g, b>> : r \in EdgeChannels, g \in Channels, b \in EdgeChannels }
    \cup { <<r, g, b>> : r \in EdgeChannels, g \in EdgeChannels, b \in Channels }

GradientHexes == {"#ff0000", "#0000ff", "#00ff00"}
GradientStops == {0, 50, 100}
GradientAngles == {0, 90, 360}

Hues == 0..359
Percents == 0..100
EdgeHues == {0, 1, 60, 120, 240, 359}
EdgePercents == {0, 40, 50, 75, 100}
HslInputs ==
    { <<h, s, l>> : h \in Hues, s \in EdgePercents, l \in EdgePercents }
    \cup { <<h, s, l>> : h \in EdgeHues, s \in Percents, l \in EdgePercents }
    \cup { <<h, s, l>> : h \in EdgeHues, s \in EdgePercents, l \in Percents }

(***************************************************************************)
(* Initial states                                                          *)
(***************************************************************************)
IdlePipe ==
    /\ imageData = <<>>
    /\ colorCount = 6
    /\ pc = "idle"
    /\ run = 0
    /\ pixels = <<>>
    /\ calls = <<>>
    /\ colors = <<>>
    /\ colorInfos = <<>>
    /\ firstColors = <<>>
    /\ promise = Pending
    /\ settleCalls = 0

IdleHex == hexIn = <<0, 0, 0>> /\ hexOut = <<>>

IdleGrad == gColors = <<>> /\ gAngle = 90 /\ gStops = <<>> /\ gCSS = ""

IdleHsl == hslIn = <<0, 0, 0>> /\ hslOut = <<>>

\* the page as mounted
IdlePage ==
    /\ pageColors = <<>>
    /\ selectedColors = {}
    /\ angle = DefaultAngle
    /\ angleFrom = "initial"
    /\ stops = <<>>
    /\ isProcessing = FALSE
    /\ uploadedImage = <<>>
    /\ pageColorCount = DefaultColorCount
    /\ inflight = {}
    /\ uploads = 0
    /\ edits = 0
    /\ toast = "none"
    /\ effectColors = <<>>
    /\ copied = FALSE
    /\ copyTimers = 0

\* no repeated call of medianCut is under way
IdleQuant ==
    /\ qInput = <<>>
    /\ qCount = 1
    /\ qArray = <<>>
    /\ qOut = <<>>

\* extractColors(imageFile, colorCount) was called and the image was drawn
InitPipe ==
    /\ imageData \in Images
    /\ colorCount \in 1..MaxColorCount
    /\ pc = "sample"
    /\ run = 1
    /\ pixels = <<>>
    /\ calls = <<>>
    /\ colors = <<>>
    /\ colorInfos = <<>>
    /\ firstColors = <<>>
    /\ promise = Pending
    /\ settleCalls = 0

Init == InitPipe /\ IdleHex /\ IdleGrad /\ IdleHsl /\ IdlePage /\ IdleQuant

(***************************************************************************)
(* extractColors, the img.onload callback                                  *)
(***************************************************************************)
\* the loop over imageData.data
Sample ==
    /\ pc = "sample"
    /\ pixels' = SamplePixels(imageData, NewPixels)
    /\ pc' = "cut"
    /\ UNCHANGED <<imageData, colorCount, run, calls, colors, colorInfos,
                   firstColors, promise, settleCalls>>
    /\ UNCHANGED offPipeVars

\* depth = ceil(log2(colorCount)); colors = medianCut(pixels, depth)
Quantize ==
    /\ pc = "cut"
    /\ LET depth == CeilLog2(colorCount)
       IN  /\ colors' = medianCut(pixels, depth)
           /\ calls' = medianCutCalls(pixels, depth)
           /\ pixels' = SortedInPlace(pixels, depth)
    /\ pc' = "slice"
    /\ UNCHANGED <<imageData, colorCount, run, colorInfos, firstColors,
                   promise, settleCalls>>
    /\ UNCHANGED offPipeVars

\* finalColors = colors.slice(0, colorCount); resolve(colorInfos)
Finalize ==
    /\ pc = "slice"
    /\ colorInfos' = ToColorInfos(Slice(colors, colorCount), run)
    /\ firstColors' = IF run = 1 THEN Slice(colors, colorCount) ELSE firstColors
    /\ promise' = Resolve(promise)
    /\ settleCalls' = settleCalls + 1
    /\ pc' = "done"
    /\ UNCHANGED <<imageData, colorCount, run, pixels, calls, colors>>
    /\ UNCHANGED offPipeVars

Next == Sample \/ Quantize \/ Finalize

Spec == Init /\ [][Next]_vars

\* the img.onload callback on the longer images
InitBuckets ==
    /\ imageData \in BucketImages
    /\ colorCount \in 1..MaxColorCount
    /\ pc = "sample"
    /\ run = 1
    /\ pixels = <<>>
    /\ calls = <<>>
    /\ colors = <<>>
    /\ colorInfos = <<>>
    /\ firstColors = <<>>
    /\ promise = Pending
    /\ settleCalls = 0
    /\ IdleHex
    /\ IdleGrad
    /\ IdleHsl
    /\ IdlePage
    /\ IdleQuant

SpecBuckets == InitBuckets /\ [][Next]_vars

(***************************************************************************)
(* medianCut called more than once by one caller                           *)
(***************************************************************************)
\* the pixel lists a caller passes: the pixels of the palette that pass the
\* filter, as the sampler stores them
QuantPixels ==
    { [r |-> p.r, g |-> p.g, b |-> p.b] : p \in {q \in PalettePixels : Keep(q)} }
QuantInputs == SeqsUpTo(QuantPixels, MaxPixels)

InitQuant ==
    /\ qInput \in QuantInputs
    /\ qCount \in 1..MaxColorCount
    /\ qArray = qInput
    /\ qOut = <<>>
    /\ IdlePipe
    /\ IdleHex
    /\ IdleGrad
    /\ IdleHsl
    /\ IdlePage

\* depth = ceil(log2(colorCount)); medianCut(pixels, depth).slice(0,
\* colorCount), where `pixels` is either the array passed to the first call,
\* which every call on it sorts in place (pixels.sort), or a new array
\* holding the first list again
QuantizeOnce(sameArray) ==
    /\ Len(qOut) < MaxRuns
    /\ LET depth == CeilLog2(qCount)
           passed == IF sameArray THEN qArray ELSE qInput
       IN  /\ qOut' = Append(qOut,
                       [sameArray |-> sameArray,
                        colors |-> Slice(medianCut(passed, depth), qCount)])
           /\ qArray' = IF sameArray THEN SortedInPlace(qArray, depth)
                        ELSE qArray
    /\ UNCHANGED <<qInput, qCount>>
    /\ UNCHANGED offQuantVars

NextQuant == \E sameArray \in BOOLEAN : QuantizeOnce(sameArray)

SpecQuant == InitQuant /\ [][NextQuant]_vars

(***************************************************************************)
(* extractColors from the call on: file read, image decoding, canvas       *)
(***************************************************************************)
PromiseImages == SeqsUpTo(PalettePixels, 1)

\* extractColors was called: reader.readAsDataURL(imageFile) is under way
InitPromise ==
    /\ imageData \in PromiseImages
    /\ colorCount \in 1..MaxColorCount
    /\ pc = "read"
    /\ run = 1
    /\ pixels = <<>>
    /\ calls = <<>>
    /\ colors = <<>>
    /\ colorInfos = <<>>
    /\ firstColors = <<>>
    /\ promise = Pending
    /\ settleCalls = 0
    /\ IdleHex
    /\ IdleGrad
    /\ IdleHsl
    /\ IdlePage
    /\ IdleQuant

\* the callbacks before the pixel loop leave the data of the run alone
PromiseFrame ==
    /\ UNCHANGED <<imageData, colorCount, run, pixels, calls, colors,
                   colorInfos, firstColors>>
    /\ UNCHANGED offPipeVars

\* reader.onerror
ReadFails ==
    /\ pc = "read"
    /\ promise' = ReaderOnError(promise)
    /\ settleCalls' = settleCalls + 1
    /\ pc' = "readFailed"
    /\ PromiseFrame

\* reader.onload: the handlers of img are set and img.src is assigned
ReadLoads ==
    /\ pc = "read"
    /\ pc' = "decode"
    /\ UNCHANGED <<promise, settleCalls>>
    /\ PromiseFrame

\* img.onerror
DecodeFails ==
    /\ pc = "decode"
    /\ promise' = ImgOnError(promise)
    /\ settleCalls' = settleCalls + 1
    /\ pc' = "decodeFailed"
    /\ PromiseFrame

\* img.onload, canvas.getContext('2d') returns null
ContextMissing ==
    /\ pc = "decode"
    /\ promise' = NoContext(promise)
    /\ settleCalls' = settleCalls + 1
    /\ pc' = "noContext"
    /\ PromiseFrame

\* img.onload, drawImage or getImageData throws (a canvas of width or
\* height 0, for one)
DrawThrows ==
    /\ pc = "decode"
    /\ promise' = Caught(promise)
    /\ settleCalls' = settleCalls + 1
    /\ pc' = "threw"
    /\ PromiseFrame

\* img.onload, the image is drawn and its pixels are read
Drawn ==
    /\ pc = "decode"
    /\ pc' = "sample"
    /\ UNCHANGED <<promise, settleCalls>>
    /\ PromiseFrame

\* extractColors is called again with the same file and the same
\* colorCount once the call before has settled: a new promise, and
\* reader.readAsDataURL(imageFile) is under way
ExtractAgain ==
    /\ pc \in {"done", "readFailed", "decodeFailed", "noContext", "threw"}
    /\ run < MaxRuns
    /\ run' = run + 1
    /\ calls' = <<>>
    /\ colors' = <<>>
    /\ colorInfos' = <<>>
    /\ promise' = Pending
    /\ settleCalls' = 0
    /\ pc' = "read"
    /\ UNCHANGED <<imageData, colorCount, pixels, firstColors>>
    /\ UNCHANGED offPipeVars

NextPromise ==
    \/ ReadFails \/ ReadLoads \/ DecodeFails \/ ContextMissing \/ DrawThrows
    \/ Drawn \/ Sample \/ Quantize \/ Finalize \/ ExtractAgain

SpecPromise == InitPromise /\ [][NextPromise]_vars

(***************************************************************************)
(* rgbToHex applied to integer channel values                              *)
(***************************************************************************)
InitHex ==
    /\ IdlePipe
    /\ IdleGrad
    /\ IdleHsl
    /\ IdlePage
    /\ IdleQuant
    /\ hexIn \in HexInputs
    /\ hexOut = <<>>

CallRgbToHex ==
    /\ hexOut = <<>>
    /\ hexOut' = rgbToHex(hexIn[1], hexIn[2], hexIn[3])
    /\ UNCHANGED <<hexIn, offHexVars>>

NextHex == CallRgbToHex

SpecHex == InitHex /\ [][NextHex]_vars

(***************************************************************************)
(* generateGradient applied to a colour list, an angle and stops           *)
(***************************************************************************)
InitGrad ==
    /\ IdlePipe
    /\ IdleHex
    /\ IdleHsl
    /\ IdlePage
    /\ IdleQuant
    /\ \E n \in 1..MaxStops :
          /\ gColors \in [1..n -> [hex : GradientHexes]]
          /\ gStops \in [1..n -> GradientStops]
    /\ gAngle \in GradientAngles
    /\ gCSS = ""

CallGenerateGradient ==
    /\ gCSS = ""
    /\ gCSS' = generateGradient(gColors, gAngle, gStops)
    /\ UNCHANGED <<gColors, gAngle, gStops, offGradVars>>

NextGrad == CallGenerateGradient

SpecGrad == InitGrad /\ [][NextGrad]_vars

(***************************************************************************)
(* hslToRgb applied to integer hue, saturation and lightness               *)
(***************************************************************************)
InitHsl ==
    /\ IdlePipe
    /\ IdleHex
    /\ IdleGrad
    /\ IdlePage
    /\ IdleQuant
    /\ hslIn \in HslInputs
    /\ hslOut = <<>>

CallHslToRgb ==
    /\ hslOut = <<>>
    /\ hslOut' \in hslToRgb(hslIn[1], hslIn[2], hslIn[3])
    /\ UNCHANGED <<hslIn, offHslVars>>

NextHsl == CallHslToRgb

SpecHsl == InitHsl /\ [][NextHsl]_vars

(***************************************************************************)
(* The page PrismExtract (src/src/pages/PrismExtract.tsx)                  *)
(***************************************************************************)
\* a stop is a number, held as <<n>>, or NaN
NaN == <<>>
Num(n) == <<n>>

\* v || 0 for a stop v
OrZero(v) == IF v = NaN THEN 0 ELSE v[1]

Ids(cs) == {cs[k].id : k \in 1..Len(cs)}

\* useEffect on [colors]: Math.round((index / (colors.length - 1)) * 100),
\* which is NaN for the only colour of a list of one
InitialStops(cs) ==
    [k \in 1..Len(cs) |->
        IF Len(cs) = 1 THEN NaN
        ELSE Num(RoundDiv(100 * (k - 1), Len(cs) - 1))]

\* colors.findIndex(c => c.id === id), from 1
FindIndex(cs, id) == MinOf({k \in 1..Len(cs) : cs[k].id = id})

\* stops[originalIndex]: a place the array does not have reads undefined,
\* which `|| 0` treats as it treats NaN
StopAt(stopList, k) ==
    IF k \in 1..Len(stopList) THEN stopList[k] ELSE NaN

\* the useMemo of gradientCSS
GradientFor(cs, selected, deg, stopList) ==
    LET activeColors == SelectSeq(cs, LAMBDA c : c.id \in selected)
        activeStops ==
            [k \in 1..Len(activeColors) |->
                OrZero(StopAt(stopList, FindIndex(cs, activeColors[k].id)))]
    IN  IF Len(activeColors) = 0 THEN ""
        ELSE generateGradient(activeColors, deg, activeStops)

gradientCSS == GradientFor(pageColors, selectedColors, angle, stops)

\* the updater of toggleColor
ToggleSetUnguarded(prev, colorId) ==
    IF colorId \in prev THEN prev \ {colorId} ELSE prev \cup {colorId}
ToggleSet(prev, colorId) ==
    IF colorId \in prev
    THEN IF Cardinality(prev) > 1 THEN prev \ {colorId} ELSE prev
    ELSE prev \cup {colorId}

\* handlePreviewClick: the new angle for a click in direction
\* Math.atan2(y, x) * (180 / Math.PI), given in quarters of a degree
PreviewAngleNoWrap(quarters) == RoundDiv(quarters + 4 * 90, 4)
PreviewAngle(quarters) ==
    LET newAngle == quarters + 4 * 90
    IN  RoundDiv(IF newAngle < 0 THEN newAngle + 4 * 360 ELSE newAngle, 4)

\* the files a user picks or drops
Files == {"photo", "blank", "broken", "notes"}

\* file.type.startsWith('image/')
IsImageType(file) == file # "notes"

\* whether the browser can decode the file
Decodes(file) == file \in {"photo", "blank"}

\* the canvas pixels of a file that decodes
FileImage(file) ==
    IF file = "photo"
    THEN <<Px(60, 20, 80, 255), Px(100, 100, 100, 125)>>
    ELSE <<Px(100, 100, 100, 125)>>

\* the value extractColors(file, count) resolves with
Extracted(job) ==
    ToColorInfos(
        Slice(medianCut(SamplePixels(FileImage(job.file), NewPixels),
                        CeilLog2(job.count)),
              job.count),
        job.no)

\* what the user can enter
SliderAngles == {0, MaxSliderAngle}
TypedAngles == {-10, 400}
ClickDirections == {-719, -361, 0}
SliderStops == {0, 70}
ColorCountEntries == {MinColorCount - 1, MinColorCount, DefaultColorCount,
                      MaxSliderColorCount + 1}
PageColorCounts == {MinColorCount, DefaultColorCount}

\* the extractions that can be started, the ids their colours can carry and
\* the places of a palette
Jobs == [file : Files, count : PageColorCounts, no : 1..MaxOps]
ColorIds == {FreshId(no, index) : no \in 1..MaxOps, index \in 0..(DefaultColorCount - 1)}
Places == 1..DefaultColorCount

InitPage ==
    /\ IdlePipe
    /\ IdleHex
    /\ IdleGrad
    /\ IdleHsl
    /\ IdlePage
    /\ IdleQuant

\* The effect on [colors] runs after the render that set `colors` is
\* committed. React runs a pending effect before it renders the updates of
\* a later callback, so the setStops and setSelectedColors of the effect
\* come after the updates that callback queued.
PendingStops(own) ==
    IF effectColors = <<>> THEN own ELSE InitialStops(effectColors)
PendingSelection(own) ==
    IF effectColors = <<>> THEN own ELSE Ids(effectColors)

\* the render after a callback that queued `ownStops` and `ownSelection`,
\* and the effect that render leaves pending
Render(ownStops, ownSelection, nextEffect) ==
    /\ stops' = PendingStops(ownStops)
    /\ selectedColors' = PendingSelection(ownSelection)
    /\ effectColors' = nextEffect

\* the effect on [colors], run with nothing else to render
RunEffect ==
    /\ effectColors # <<>>
    /\ Render(stops, selectedColors, <<>>)
    /\ UNCHANGED <<pageColors, angle, angleFrom, isProcessing, uploadedImage,
                   pageColorCount, inflight, uploads, edits, toast, copied,
                   copyTimers>>
    /\ UNCHANGED offPageVars

\* handleFileChange with a file that is not an image
RejectFile(file) ==
    /\ ~IsImageType(file)
    /\ toast # "Invalid File"
    /\ toast' = "Invalid File"
    /\ Render(stops, selectedColors, <<>>)
    /\ UNCHANGED <<pageColors, angle, angleFrom, isProcessing, uploadedImage,
                   pageColorCount, inflight, uploads, edits, copied,
                   copyTimers>>
    /\ UNCHANGED offPageVars

\* handleFileChange with an image, up to the await of extractColors
StartExtraction(file) ==
    /\ IsImageType(file)
    /\ uploads + edits < MaxOps
    /\ uploads' = uploads + 1
    /\ isProcessing' = TRUE
    /\ uploadedImage' = <<file, uploads + 1>>
    /\ inflight' = inflight \cup
            {[file |-> file, count |-> pageColorCount, no |-> uploads + 1]}
    /\ Render(stops, selectedColors, <<>>)
    /\ UNCHANGED <<pageColors, angle, angleFrom, pageColorCount, edits, toast,
                   copied, copyTimers>>
    /\ UNCHANGED offPageVars

\* handleFileChange after the await: setColors, the success toast, finally;
\* the render it causes leaves the effect on the new colours pending
ExtractionResolves(job) ==
    /\ job \in inflight
    /\ Decodes(job.file)
    /\ inflight' = inflight \ {job}
    /\ pageColors' = Extracted(job)
    /\ toast' = "Success!"
    /\ isProcessing' = FALSE
    /\ Render(stops, selectedColors, pageColors')
    /\ UNCHANGED <<angle, angleFrom, uploadedImage, pageColorCount, uploads,
                   edits, copied, copyTimers>>
    /\ UNCHANGED offPageVars

\* handleFileChange after the await threw: catch, finally
ExtractionRejects(job) ==
    /\ job \in inflight
    /\ ~Decodes(job.file)
    /\ inflight' = inflight \ {job}
    /\ toast' = "Processing Error"
    /\ isProcessing' = FALSE
    /\ Render(stops, selectedColors, <<>>)
    /\ UNCHANGED <<pageColors, angle, angleFrom, uploadedImage,
                   pageColorCount, uploads, edits, copied, copyTimers>>
    /\ UNCHANGED offPageVars

\* the slider and the input of the colour count: the input calls
\* setColorCount only if (val >= 3 && val <= 12), the slider has these ends
SetColorCount(n) ==
    /\ n >= MinColorCount
    /\ n <= MaxSliderColorCount
    /\ n # pageColorCount
    /\ pageColorCount' = n
    /\ Render(stops, selectedColors, <<>>)
    /\ UNCHANGED <<pageColors, angle, angleFrom, isProcessing, uploadedImage,
                   inflight, uploads, edits, toast, copied, copyTimers>>
    /\ UNCHANGED offPageVars

\* toggleColor, from the button of a colour of the palette
ToggleColor(colorId) ==
    /\ colorId \in Ids(pageColors)
    /\ uploads + edits < MaxOps
    /\ edits' = edits + 1
    /\ Render(stops, ToggleSet(selectedColors, colorId), <<>>)
    /\ UNCHANGED <<pageColors, angle, angleFrom, isProcessing, uploadedImage,
                   pageColorCount, inflight, uploads, toast, copied,
                   copyTimers>>
    /\ UNCHANGED offPageVars

\* newStops = [...prev]; newStops[index] = value, for index from 1 (a place
\* past the end that is not assigned reads undefined, shown here as NaN:
\* both are 0 under `|| 0`)
StopsWith(prev, index, value) ==
    [k \in 1..MaxOf({Len(prev), index}) |->
        IF k = index THEN Num(value)
        ELSE IF k <= Len(prev) THEN prev[k] ELSE NaN]

\* updateStop, from the slider of a selected colour
UpdateStop(index, value) ==
    /\ index \in 1..Len(pageColors)
    /\ pageColors[index].id \in selectedColors
    /\ uploads + edits < MaxOps
    /\ edits' = edits + 1
    /\ Render(StopsWith(stops, index, value), selectedColors, <<>>)
    /\ UNCHANGED <<pageColors, angle, angleFrom, isProcessing, uploadedImage,
                   pageColorCount, inflight, uploads, toast, copied,
                   copyTimers>>
    /\ UNCHANGED offPageVars

AngleFrame ==
    /\ Render(stops, selectedColors, <<>>)
    /\ UNCHANGED <<pageColors, isProcessing, uploadedImage, pageColorCount,
                   inflight, uploads, toast, copied, copyTimers>>
    /\ UNCHANGED offPageVars

\* the angle slider: setAngle(value[0])
SlideAngle(value) ==
    /\ Len(pageColors) > 0
    /\ uploads + edits < MaxOps
    /\ edits' = edits + 1
    /\ angle' = value
    /\ angleFrom' = "slider"
    /\ AngleFrame

\* the angle input: setAngle(Number(e.target.value))
TypeAngle(value) ==
    /\ Len(pageColors) > 0
    /\ uploads + edits < MaxOps
    /\ edits' = edits + 1
    /\ angle' = value
    /\ angleFrom' = "input"
    /\ AngleFrame

\* handlePreviewClick
ClickPreview(quarters) ==
    /\ Len(pageColors) > 0
    /\ uploads + edits < MaxOps
    /\ edits' = edits + 1
    /\ angle' = PreviewAngle(quarters)
    /\ angleFrom' = "click"
    /\ AngleFrame

\* handleCopyCSS, from the button of the CSS card
CopyCSS ==
    /\ Len(pageColors) > 0
    /\ uploads + edits < MaxOps
    /\ edits' = edits + 1
    /\ copied' = TRUE
    /\ toast' = "Copied!"
    /\ copyTimers' = copyTimers + 1
    /\ Render(stops, selectedColors, <<>>)
    /\ UNCHANGED <<pageColors, angle, angleFrom, isProcessing, uploadedImage,
                   pageColorCount, inflight, uploads>>
    /\ UNCHANGED offPageVars

\* the timeout of handleCopyCSS: setCopied(false)
CopiedTimeout ==
    /\ copyTimers > 0
    /\ copyTimers' = copyTimers - 1
    /\ copied' = FALSE
    /\ Render(stops, selectedColors, <<>>)
    /\ UNCHANGED <<pageColors, angle, angleFrom, isProcessing, uploadedImage,
                   pageColorCount, inflight, uploads, edits, toast>>
    /\ UNCHANGED offPageVars

\* handleReset, from the button over the uploaded image
Reset ==
    /\ uploadedImage # <<>>
    /\ pageColors' = <<>>
    /\ uploadedImage' = <<>>
    /\ copied' = FALSE
    /\ Render(<<>>, {}, <<>>)
    /\ UNCHANGED <<angle, angleFrom, isProcessing, pageColorCount, inflight,
                   uploads, edits, toast, copyTimers>>
    /\ UNCHANGED offPageVars

NextPage ==
    \/ RunEffect
    \/ \E file \in Files : RejectFile(file)
    \/ \E file \in Files : StartExtraction(file)
    \/ \E job \in Jobs : ExtractionResolves(job)
    \/ \E job \in Jobs : ExtractionRejects(job)
    \/ \E n \in ColorCountEntries : SetColorCount(n)
    \/ \E colorId \in ColorIds : ToggleColor(colorId)
    \/ \E index \in Places : \E value \in SliderStops :
          UpdateStop(index, value)
    \/ \E value \in SliderAngles : SlideAngle(value)
    \/ \E value \in TypedAngles : TypeAngle(value)
    \/ \E quarters \in ClickDirections : ClickPreview(quarters)
    \/ CopyCSS
    \/ CopiedTimeout
    \/ Reset

SpecPage == InitPage /\ [][NextPage]_vars

(***************************************************************************)
(* Properties of the quantizer                                             *)
(***************************************************************************)
Quantized == pc \in {"slice", "done"}

Depth == CeilLog2(colorCount)

Black == [r |-> 0, g |-> 0, b |-> 0]

\* the pixel lists handed to the base-case calls, in call order
TerminalBucketsOf(cs) ==
    LET terminal == SelectSeq(cs, LAMBDA c : c.base)
    IN  [k \in 1..Len(terminal) |-> terminal[k].pixels]

RECURSIVE SeqBag(_)
SeqBag(s) == IF s = <<>> THEN EmptyBag ELSE SetToBag({Head(s)}) (+) SeqBag(Tail(s))

RECURSIVE BucketsBag(_)
BucketsBag(buckets) ==
    IF buckets = <<>> THEN EmptyBag
    ELSE SeqBag(Head(buckets)) (+) BucketsBag(Tail(buckets))

\* C1: whatever the pixel list and the colorCount in 1..16, the resolved
\* list holds exactly colorCount colours.
CountContract == pc = "done" => Len(colorInfos) = colorCount

\* C2: when the filtered pixel list is empty, the result holds colorCount
\* entries and every one of them is black.
EmptyInputAllBlack ==
    (pc = "done" /\ pixels = <<>>) =>
        /\ Len(colorInfos) = colorCount
        /\ \A k \in 1..Len(colorInfos) : colorInfos[k].rgb = Black

\* C3: medianCut(pixels, d) hands exactly 2^d buckets to its base case and
\* returns exactly 2^d colours, one per bucket.
PowerOfTwoBuckets ==
    Quantized =>
        /\ Len(TerminalBucketsOf(calls)) = Pow2(Depth)
        /\ Len(colors) = Pow2(Depth)

\* C4: the pixel lists of the base-case calls of one medianCut run hold,
\* taken together, exactly the pixels the run was given: each pixel as often
\* as the input holds it.
Coverage ==
    [][pc = "cut" => BucketsBag(TerminalBucketsOf(calls')) = SeqBag(pixels)]_vars

\* a run on three pixels that reached depth 2 and filled three buckets
CoverageWitness ==
    /\ Quantized
    /\ Len(pixels) = 3
    /\ Cardinality({k \in 1..Len(calls) :
                       calls[k].base /\ Len(calls[k].pixels) = 1}) = 3
    /\ \E k \in 1..Len(calls) : calls[k].base /\ calls[k].pixels = <<>>

(***************************************************************************)
(* Channel selection                                                       *)
(***************************************************************************)
\* max - min of one channel over a non-empty bucket
SpanOf(bucket, ch) ==
    MaxOf({bucket[k][ch] : k \in 1..Len(bucket)})
    - MinOf({bucket[k][ch] : k \in 1..Len(bucket)})

GreatestSpan(bucket) ==
    MaxOf({SpanOf(bucket, "r"), SpanOf(bucket, "g"), SpanOf(bucket, "b")})

\* the first channel of `order` whose span over the bucket is the greatest
FirstWidest(bucket, order) ==
    order[MinOf({k \in 1..Len(order) :
                    SpanOf(bucket, order[k]) = GreatestSpan(bucket)})]

Splits == {k \in 1..Len(calls) : ~calls[k].base}

\* C5 as stated: every split is on the first channel, in the order red,
\* green, blue, among those that share the greatest range.
TieBreakRedGreenBlue ==
    \A k \in Splits :
        calls[k].channel = FirstWidest(calls[k].pixels, <<"r", "g", "b">>)

\* C5 as amended: every split is on the first channel, in the order green,
\* blue, red, among those that share the greatest range; when all three
\* ranges are equal the split is on green.
TieBreakGreenBlueRed ==
    \A k \in Splits :
        calls[k].channel = FirstWidest(calls[k].pixels, <<"g", "b", "r">>)

\* a split of a bucket whose three ranges are equal and positive, where
\* the sort on green reordered the bucket
TieBreakWitness ==
    \E k \in Splits :
        /\ SpanOf(calls[k].pixels, "r") > 0
        /\ SpanOf(calls[k].pixels, "r") = SpanOf(calls[k].pixels, "g")
        /\ SpanOf(calls[k].pixels, "g") = SpanOf(calls[k].pixels, "b")
        /\ calls[k].channel = "g"
        /\ calls[k].sorted # calls[k].pixels

(***************************************************************************)
(* Determinism                                                             *)
(***************************************************************************)
\* C6: two quantization runs on the same pixel list with the same colorCount
\* return the same colour list, element by element and in the same order,
\* and what an earlier call left behind, the in-place sort of the array it
\* was passed, does not change the result of a later call on that array.
Determinism ==
    \A j \in 1..Len(qOut) : qOut[j].colors = qOut[1].colors

\* a second call on the array the first call was passed and reordered, with
\* a result of colours that are not all alike
DeterminismWitness ==
    /\ Len(qOut) >= 2
    /\ qOut[1].sameArray
    /\ qOut[2].sameArray
    /\ qArray # qInput
    /\ \E j, k \in 1..Len(qOut[2].colors) :
          qOut[2].colors[j] # qOut[2].colors[k]

(***************************************************************************)
(* The sampler                                                             *)
(***************************************************************************)
Sampled == pc \in {"cut", "slice", "done"}

AllPixels(P(_)) == \A k \in 1..Len(imageData) : P(imageData[k])

\* C7 as stated: an image whose pixels all have r, g and b >= 240 leaves
\* the filtered pixel list empty.
WhiteFromTwoForty ==
    (Sampled /\ AllPixels(LAMBDA p : p.r >= 240 /\ p.g >= 240 /\ p.b >= 240))
        => pixels = <<>>

\* C7 as amended: an image whose pixels all have r, g and b > 240 (241 or
\* more), whatever their alpha, leaves the filtered pixel list empty.
WhiteAboveTwoForty ==
    (Sampled /\ AllPixels(LAMBDA p : p.r > 240 /\ p.g > 240 /\ p.b > 240))
        => pixels = <<>>

\* an opaque image of one pixel (241, 241, 241) was sampled to nothing
WhiteWitness ==
    /\ Sampled
    /\ Len(imageData) = 1
    /\ imageData[1] = Px(241, 241, 241, 126)
    /\ pixels = <<>>

\* the filter as the claim words it
Excluded(p) ==
    \/ p.a <= 125
    \/ (p.r > 240 /\ p.g > 240 /\ p.b > 240)
    \/ (p.r < 15 /\ p.g < 15 /\ p.b < 15)

ExpectedSample(data) ==
    LET kept == SelectSeq(data, LAMBDA p : ~Excluded(p))
    IN  [k \in 1..Len(kept) |-> [r |-> kept[k].r, g |-> kept[k].g, b |-> kept[k].b]]

\* C8: right after the sampling loop the pixel list holds, in scan order
\* and as (r, g, b) triples, exactly the pixels that have alpha > 125, are
\* not above 240 on all three channels and are not below 15 on all three.
FilterPredicate == pc = "cut" => pixels = ExpectedSample(imageData)

\* three pixels were scanned, the middle one was dropped for its alpha of
\* 125 and the two kept ones differ
FilterWitness ==
    /\ pc = "cut"
    /\ Len(imageData) = 3
    /\ imageData[2].a = 125
    /\ Len(pixels) = 2
    /\ pixels[1] # pixels[2]
    /\ pixels[1].r = imageData[1].r
    /\ pixels[2].r = imageData[3].r

(***************************************************************************)
(* The gradient string                                                     *)
(***************************************************************************)
RECURSIVE StopsFrom(_, _, _)
StopsFrom(cs, stopList, k) ==
    IF k > Len(cs) THEN ""
    ELSE ", " \o cs[k].hex \o " " \o ToString(stopList[k]) \o "%"
         \o StopsFrom(cs, stopList, k + 1)

\* C9: the string returned for N colours, N stops and angle A is
\* "linear-gradient(Adeg" followed by ", <hex> <stop>%" for each colour in
\* input order and a closing ")"; red at 0 and blue at 100 under 90 degrees
\* give "linear-gradient(90deg, #ff0000 0%, #0000ff 100%)".
GradientFormat ==
    gCSS # "" =>
        /\ gCSS = "linear-gradient(" \o ToString(gAngle) \o "deg"
                  \o StopsFrom(gColors, gStops, 1) \o ")"
        /\ (/\ gColors = <<[hex |-> "#ff0000"], [hex |-> "#0000ff"]>>
            /\ gStops = <<0, 100>>
            /\ gAngle = 90)
           => gCSS = "linear-gradient(90deg, #ff0000 0%, #0000ff 100%)"

\* the same colour twice, with stops in descending order, was formatted
GradientWitness ==
    /\ gCSS # ""
    /\ gColors = <<[hex |-> "#0000ff"], [hex |-> "#0000ff"]>>
    /\ gStops = <<100, 0>>
    /\ gAngle = 90
    /\ gCSS = "linear-gradient(90deg, #0000ff 100%, #0000ff 0%)"

(***************************************************************************)
(* Hex encoding                                                            *)
(***************************************************************************)
LowerHexChars == {"0", "1", "2", "3", "4", "5", "6", "7",
                  "8", "9", "a", "b", "c", "d", "e", "f"}

DigitValue(c) ==
    CASE c = "0" -> 0  [] c = "1" -> 1  [] c = "2" -> 2  [] c = "3" -> 3
      [] c = "4" -> 4  [] c = "5" -> 5  [] c = "6" -> 6  [] c = "7" -> 7
      [] c = "8" -> 8  [] c = "9" -> 9  [] c = "a" -> 10 [] c = "b" -> 11
      [] c = "c" -> 12 [] c = "d" -> 13 [] c = "e" -> 14 [] c = "f" -> 15

\* the two characters at positions k and k + 1 read as a base-16 number
PairValue(chars, k) == 16 * DigitValue(chars[k]) + DigitValue(chars[k + 1])

\* C10: for integer channels in 0..255 rgbToHex returns '#' and six
\* lowercase hex digits, and reading the three digit pairs back in base 16
\* gives the channels again.
HexRoundTrip ==
    hexOut # <<>> =>
        /\ Len(hexOut) = 7
        /\ hexOut[1] = "#"
        /\ \A k \in 2..7 : hexOut[k] \in LowerHexChars
        /\ <<PairValue(hexOut, 2), PairValue(hexOut, 4), PairValue(hexOut, 6)>>
               = hexIn

\* a triple with a one-digit channel, a two-digit channel and zero was
\* encoded
HexWitness ==
    /\ hexIn = <<10, 171, 0>>
    /\ hexOut = <<"#", "0", "a", "a", "b", "0", "0">>

(***************************************************************************)
(* HSL to RGB                                                              *)
(***************************************************************************)
\* C11: at saturation 100 and lightness 50 hslToRgb returns (255,0,0) for
\* hue 0, (0,255,0) for hue 120 and (0,0,255) for hue 240; for every hue
\* in 0..359 and every saturation and lightness in 0..100 each returned
\* channel is an integer in 0..255.
HslBoundary ==
    hslOut # <<>> =>
        /\ Len(hslOut) = 3
        /\ \A k \in 1..3 : hslOut[k] \in 0..255
        /\ hslIn = <<0, 100, 50>> => hslOut = <<255, 0, 0>>
        /\ hslIn = <<120, 100, 50>> => hslOut = <<0, 255, 0>>
        /\ hslIn = <<240, 100, 50>> => hslOut = <<0, 0, 255>>

\* pure green came out of hue 120
HslWitness == hslIn = <<120, 100, 50>> /\ hslOut = <<0, 255, 0>>

(***************************************************************************)
(* Failure reporting of extractColors                                      *)
(***************************************************************************)
Failed == pc \in {"readFailed", "decodeFailed", "noContext", "threw"}

\* C12: an extractColors call invokes resolve or reject exactly once, when
\* it ends; a failed file read rejects with 'Failed to read file', a failed
\* decoding with 'Failed to load image', a missing 2D context with 'Could
\* not get canvas context', and none of them resolves or leaves colours.
FailureReporting ==
    /\ settleCalls <= 1
    /\ (pc = "done" \/ Failed) <=> settleCalls = 1
    /\ (pc = "done" \/ Failed) <=> promise.state # "pending"
    /\ pc = "done" <=> promise.state = "fulfilled"
    /\ pc = "readFailed" =>
          promise = [state |-> "rejected", reason |-> "Failed to read file"]
    /\ pc = "decodeFailed" =>
          promise = [state |-> "rejected", reason |-> "Failed to load image"]
    /\ pc = "noContext" =>
          promise = [state |-> "rejected",
                     reason |-> "Could not get canvas context"]
    /\ Failed => colorInfos = <<>>

\* the decoding of an image failed and the promise was rejected for it
FailureWitness ==
    /\ pc = "decodeFailed"
    /\ promise.state = "rejected"
    /\ settleCalls = 1

(***************************************************************************)
(* The steps of medianCut                                                  *)
(***************************************************************************)
RgbChannels == {"r", "g", "b"}

\* C14: every call of medianCut that splits sorts on a channel whose range
\* over the bucket is at least the range of each other channel.
ChannelHasGreatestRange ==
    \A k \in Splits : \A ch \in RgbChannels :
        SpanOf(calls[k].pixels, calls[k].channel) >= SpanOf(calls[k].pixels, ch)

\* a bucket whose red range is strictly the greatest was sorted on red, and
\* the sort moved pixels
ChannelWitness ==
    \E k \in Splits :
        /\ calls[k].channel = "r"
        /\ SpanOf(calls[k].pixels, "r") > SpanOf(calls[k].pixels, "g")
        /\ SpanOf(calls[k].pixels, "r") > SpanOf(calls[k].pixels, "b")
        /\ calls[k].sorted # calls[k].pixels

\* the call that handles the upper half of split k: the first call after
\* the lower half's call (k + 1) that runs one level below k
UpperCall(k) ==
    MinOf({j \in (k + 2)..Len(calls) : calls[j].depth = calls[k].depth - 1})

Ascending(s, ch) == \A i \in 1..(Len(s) - 1) : s[i][ch] <= s[i + 1][ch]

\* C15: a splitting call on a bucket of length L sorts it ascending on the
\* chosen channel, passes the first floor(L/2) pixels to the lower call and
\* the other ceil(L/2) to the upper call, no lower pixel exceeds an upper
\* pixel on that channel, and the colours come out lower half first: the
\* returned list is the averages of the base-case buckets in call order.
SplitAndOrder ==
    /\ \A k \in Splits :
          LET c == calls[k]
              L == Len(c.pixels)
              lower == calls[k + 1]
              upper == calls[UpperCall(k)]
          IN  /\ SeqBag(c.sorted) = SeqBag(c.pixels)
              /\ Ascending(c.sorted, c.channel)
              /\ lower.depth = c.depth - 1
              /\ Len(lower.pixels) = L \div 2
              /\ Len(upper.pixels) = L - (L \div 2)
              /\ lower.pixels \o upper.pixels = c.sorted
              /\ \A i \in 1..Len(lower.pixels) : \A j \in 1..Len(upper.pixels) :
                    lower.pixels[i][c.channel] <= upper.pixels[j][c.channel]
    /\ Quantized =>
          colors = [j \in 1..Len(TerminalBucketsOf(calls)) |->
                       averageColor(TerminalBucketsOf(calls)[j])]

\* an odd bucket was reordered by its sort and split one to two, and the
\* two halves gave different colours
SplitWitness ==
    /\ Quantized
    /\ ~calls[1].base
    /\ Len(calls[1].pixels) = 3
    /\ calls[1].sorted # calls[1].pixels
    /\ Len(calls[2].pixels) = 1
    /\ Len(calls[UpperCall(1)].pixels) = 2
    /\ colors[1] # colors[Len(colors)]

\* the sum of one channel over a bucket
RECURSIVE TotalUpTo(_, _, _)
TotalUpTo(bucket, ch, n) ==
    IF n = 0 THEN 0 ELSE TotalUpTo(bucket, ch, n - 1) + bucket[n][ch]

Distance(a, b) == IF a >= b THEN a - b ELSE b - a

\* C16: medianCut takes its base case exactly when depth is 0 or the bucket
\* is empty and returns one colour for it: black for an empty bucket, else
\* per channel an integer nearest to the mean of the bucket, which lies
\* between the bucket's least and greatest value and within 0..255.
BaseCaseMean ==
    /\ \A k \in 1..Len(calls) :
          calls[k].base <=> (calls[k].depth = 0 \/ calls[k].pixels = <<>>)
    /\ Quantized =>
          /\ Len(colors) = Len(TerminalBucketsOf(calls))
          /\ \A j \in 1..Len(colors) :
                LET bucket == TerminalBucketsOf(calls)[j]
                    L == Len(bucket)
                IN  IF L = 0 THEN colors[j] = Black
                    ELSE \A ch \in RgbChannels :
                            /\ colors[j][ch] \in 0..255
                            /\ 2 * Distance(TotalUpTo(bucket, ch, L),
                                            colors[j][ch] * L) <= L
                            /\ colors[j][ch] >=
                                   MinOf({bucket[i][ch] : i \in 1..L})
                            /\ colors[j][ch] <=
                                   MaxOf({bucket[i][ch] : i \in 1..L})

\* a bucket of three pixels was averaged and a mean was rounded up
BaseCaseWitness ==
    /\ Quantized
    /\ Len(colors) = 1
    /\ Len(calls[1].pixels) = 3
    /\ \E ch \in RgbChannels :
          colors[1][ch] * 3 > TotalUpTo(calls[1].pixels, ch, 3)

(***************************************************************************)
(* The result of extractColors                                             *)
(***************************************************************************)
\* C17: the resolved list is the first colorCount colours of the medianCut
\* result, in its order; entry i (from 0) has count i, the i-th colour as
\* rgb and its rgbToHex as hex.
TruncationAndRanking ==
    pc = "done" =>
        /\ Len(colorInfos) = colorCount
        /\ \A i \in 1..colorCount :
              /\ colorInfos[i].rgb = colors[i]
              /\ colorInfos[i].count = i - 1
              /\ colorInfos[i].hex =
                     Str(rgbToHex(colors[i].r, colors[i].g, colors[i].b))

(***************************************************************************)
(* Properties of the page                                                  *)
(***************************************************************************)
\* C13 as stated: after angle-slider changes and preview clicks the angle
\* handed to generateGradient is in the half-open range [0,360): it is
\* never negative and never 360.
AngleHalfOpen ==
    angleFrom \in {"slider", "click"} => angle \in 0..(MaxSliderAngle - 1)

\* C13 amended: after angle-slider changes and preview clicks the angle
\* handed to generateGradient is in the closed range [0,360]: it is never
\* negative and never above 360, and 360 itself is produced.
AngleClosed ==
    angleFrom \in {"slider", "click"} => angle \in 0..MaxSliderAngle

\* a preview click whose direction rounds up to 360 degrees
AngleWitness ==
    /\ angleFrom = "click"
    /\ angle = MaxSliderAngle
    /\ gradientCSS # ""

\* C18: once colours are loaded and their effect has set the selection to
\* all colour ids, the selected set is non-empty and a subset of the ids of
\* the current colours, whatever toggleColor calls were made, so the
\* gradient string is never generateGradient of zero colours; with no active
\* colour the gradient string is the empty string.
NonEmptySelection ==
    /\ (pageColors # <<>> /\ effectColors = <<>>) =>
          /\ selectedColors # {}
          /\ selectedColors \subseteq Ids(pageColors)
    /\ gradientCSS # generateGradient(<<>>, angle, <<>>)
    /\ SelectSeq(pageColors, LAMBDA c : c.id \in selectedColors) = <<>> =>
          gradientCSS = ""

\* a palette of three or more colours, its effect run, toggled down to one
\* selected colour
NonEmptySelectionWitness ==
    /\ Len(pageColors) >= 3
    /\ effectColors = <<>>
    /\ Cardinality(selectedColors) = 1
    /\ selectedColors \subseteq Ids(pageColors)

\* the places of the full colours list whose colour is selected, in order
ActivePlaces ==
    SelectSeq([k \in 1..Len(pageColors) |-> k],
              LAMBDA k : pageColors[k].id \in selectedColors)

\* a stored stop as template text
StopText(v) == IF v = NaN THEN "NaN" ELSE ToString(v[1])

\* C19: in the gradient string each active colour is rendered with the stop
\* stored at that colour's index in the full colours list, not its index
\* among the active colours, so that toggling a colour, which leaves stops,
\* colours and angle alone, off and on again restores the gradient string.
StopsFollowColours ==
    ActivePlaces # <<>> =>
        gradientCSS =
            "linear-gradient(" \o ToString(angle) \o "deg, "
            \o Join([j \in 1..Len(ActivePlaces) |->
                        pageColors[ActivePlaces[j]].hex \o " "
                        \o StopText(stops[ActivePlaces[j]]) \o "%"], ", ")
            \o ")"

\* C20: in every reachable state of the page isProcessing is true if and
\* only if some extractColors call started by handleFileChange has not yet
\* settled, also when a second image is uploaded before the first
\* extraction finishes.
ProcessingFlag == isProcessing <=> inflight # {}

\* what extracting the image shown as uploadedImage resolves with, for the
\* colour counts the page can ask for
ShownImagePalettes ==
    IF uploadedImage # <<>> /\ Decodes(uploadedImage[1])
    THEN {Extracted([file |-> uploadedImage[1], count |-> n,
                     no |-> uploadedImage[2]]) : n \in PageColorCounts}
    ELSE {}

\* C21: in every state with no extraction in flight, whatever the order of
\* uploads, extraction completions and resets, the colours list is either
\* empty with no uploaded image shown, or is the result of extracting the
\* image currently shown as uploadedImage.
PaletteMatchesImage ==
    inflight = {} =>
        \/ pageColors = <<>> /\ uploadedImage = <<>>
        \/ pageColors \in ShownImagePalettes

(***************************************************************************)
(* Bucket sizes                                                            *)
(***************************************************************************)
CeilDiv(n, d) == (n + d - 1) \div d

\* C22: for a pixel list of length L and depth d every terminal bucket of
\* medianCut holds floor(L / 2^d) or ceil(L / 2^d) pixels; so when
\* L >= 2^d no terminal bucket is empty, medianCut returns exactly 2^d
\* colours and extractColors resolves with exactly colorCount colours.
BalancedBuckets ==
    Quantized =>
        LET buckets == TerminalBucketsOf(calls)
            L == Len(pixels)
        IN  /\ \A k \in 1..Len(buckets) :
                  Len(buckets[k]) \in {L \div Pow2(Depth), CeilDiv(L, Pow2(Depth))}
            /\ L >= Pow2(Depth) =>
                  /\ \A k \in 1..Len(buckets) : buckets[k] # <<>>
                  /\ Len(buckets) = Pow2(Depth)
                  /\ Len(colors) = Pow2(Depth)
                  /\ pc = "done" => Len(colorInfos) = colorCount

\* five pixels cut at depth 2 into buckets of one and of two pixels, the
\* three colours asked for resolved
BalancedWitness ==
    /\ pc = "done"
    /\ Len(pixels) = 5
    /\ colorCount = 3
    /\ Len(colorInfos) = 3
    /\ {Len(calls[k].pixels) : k \in {j \in 1..Len(calls) : calls[j].base}} = {1, 2}

====
